---- MODULE Spec2Model ----
(***************************************************************************)
(* View synthesis operators of the photogrammetry importer                 *)
(* (photogrammetry_importer/panels/view_synthesis_operators.py).           *)
(*                                                                         *)
(* One operator invocation is modelled from the moment the operator's      *)
(* execute() is entered until it returns {"FINISHED"} or an exception      *)
(* leaves it.  The host is single threaded and blocks in communicate(), so *)
(* the only other actor is the spawned engine process.                     *)
(*                                                                         *)
(* Text is a sequence of atoms: "a b" is <<"a", " ", "b">>, the empty      *)
(* string is <<>>.  Whitespace atoms are " " and "\t".                     *)
(***************************************************************************)
EXTENDS Integers, Sequences, FiniteSets, TLC

VARIABLES
    platform,           \* sys.platform
    settings,           \* scene.view_synthesis_panel_settings
    exe_is_file,        \* os.path.isfile(view_synthesis_executable_fp)
    anchor,             \* bpy.data.objects[rotation_anchor_obj_name], if any
    selected_camera,    \* get_selected_camera()
    other,              \* a second invocation, of another host process
    fs,                 \* the temp directory: path -> file state
    pc,                 \* position of the invocation
    variant,            \* "single" (run_view_synth) or "anim"
    output_dp,          \* save_to_dp / self.filepath
    animation_indices,  \* get_scene_animation_indices()
    frame_current,      \* the host timeline position
    temp_json_file,     \* NamedTemporaryFile object of the request
    temp_array_file,    \* NamedTemporaryFile object of the response
    subprocess_args,    \* the arguments create_subprocess_command was called with
    command,            \* the argument vector
    cameras,            \* the poses captured so far
    centroid_shift,     \* the local variable centroid_shift
    proc,               \* the child process
    image,              \* what was handed to the display collaborator
    err,                \* the exception that left the invocation, if any
    result,             \* the operator's return value
    calls               \* history of the collaborator calls of this invocation

vars == <<other, selected_camera, platform, settings, exe_is_file, anchor,
          fs, pc, variant, output_dp,
          animation_indices, frame_current, temp_json_file, temp_array_file,
          subprocess_args, command, cameras, centroid_shift, proc, image, err,
          result, calls>>

(***************************************************************************)
(* Bounds                                                                  *)
(***************************************************************************)
MaxTmp == 3      \* names the temp directory can hand out
MaxFrame == 2    \* animation frame indices are drawn from 0..MaxFrame
MaxRows == 2     \* height of the response array
MaxCols == 2     \* width of the response array

(***************************************************************************)
(* Text                                                                    *)
(***************************************************************************)
Whitespace == {" ", "\t"}

DigitChars == <<"0", "1", "2", "3", "4", "5", "6", "7", "8", "9">>

RECURSIVE NatToStr(_)
NatToStr(n) ==
    IF n < 10 THEN <<DigitChars[n + 1]>>
    ELSE NatToStr(n \div 10) \o <<DigitChars[(n % 10) + 1]>>

\* str(n) of a Python int
IntToStr(n) == IF n < 0 THEN <<"-">> \o NatToStr(0 - n) ELSE NatToStr(n)

RECURSIVE LStrip(_)
LStrip(s) ==
    IF s # <<>> /\ Head(s) \in Whitespace THEN LStrip(Tail(s)) ELSE s

RECURSIVE RStrip(_)
RStrip(s) ==
    IF s # <<>> /\ s[Len(s)] \in Whitespace
    THEN RStrip(SubSeq(s, 1, Len(s) - 1))
    ELSE s

\* str.strip()
Strip(s) == RStrip(LStrip(s))

\* Python's None and a present value
None == [isNone |-> TRUE, val |-> <<>>]
Some(v) == [isNone |-> FALSE, val |-> v]

(***************************************************************************)
(* Inputs                                                                  *)
(***************************************************************************)
Platforms == {"linux", "win32", "darwin"}

\* The enum items of the panel, and a value that matches neither branch of
\* create_instant_ngp_cmd.
ExecutionEnvironments == {"CONDA", "DEFAULT PYTHON", "DIRECT"}

AdditionalSystemDps == {<<>>, <<" ", "\t">>, <<" ", "build", " ", "lib", "\t">>}

OutputDps == {<<>>, <<" ">>, <<" ", "out">>}

\* an IntProperty without a minimum
SamplesPerPixel == {-1, 4, 12}

Settings ==
    [execution_environment : ExecutionEnvironments,
     conda_exe_fp : {<<"conda">>},
     conda_env_name : {<<"base">>},
     python_exe_fp : {<<"py">>},
     additional_system_dps : AdditionalSystemDps,
     view_synthesis_executable_fp : {<<"run.py">>},
     view_synthesis_snapshot_fp : {<<"s.msgpack">>},
     samples_per_pixel : SamplesPerPixel,
     rotation_anchor_obj_name : {<<"anchor">>}]

\* timeline positions of the scene
Frames == 0..MaxFrame

(***************************************************************************)
(* World transforms: 4x4 matrices of a rotation and a translation, over    *)
(* integers (lengths are scaled by 2, so that 0.5 is 1)                    *)
(***************************************************************************)
Identity3 == <<<<1, 0, 0>>, <<0, 1, 0>>, <<0, 0, 1>>>>
RotZ90 == <<<<0, -1, 0>>, <<1, 0, 0>>, <<0, 0, 1>>>>

Transform(rot, trans) ==
    [i \in 1..4 |-> [j \in 1..4 |->
        IF i <= 3 /\ j <= 3 THEN rot[i][j]
        ELSE IF i <= 3 THEN trans[i]
        ELSE IF j = 4 THEN 1 ELSE 0]]

Rotation(m) == [i \in 1..3 |-> [j \in 1..3 |-> m[i][j]]]
Translation(m) == [i \in 1..3 |-> m[i][4]]

\* the @ of mathutils.Matrix
MatMul(a, b) ==
    [i \in 1..4 |-> [j \in 1..4 |->
        a[i][1] * b[1][j] + a[i][2] * b[2][j]
        + a[i][3] * b[3][j] + a[i][4] * b[4][j]]]

\* np_utility.invert_transformation_matrix: the inverse of a rigid
\* transform, transposed rotation and the translation rotated back and negated
invert_transformation_matrix(m) ==
    LET rt == [i \in 1..3 |-> [j \in 1..3 |-> m[j][i]]]
    IN  Transform(rt, [i \in 1..3 |->
            0 - (rt[i][1] * m[1][4] + rt[i][2] * m[2][4] + rt[i][3] * m[3][4])])

\* the anchor object: absent, or present; its centroid_shift property is read
\* at the timeline position of the capture
Shifts == {None, Some(<<1, 0, 0>>)}
ShiftTracks == {[f \in Frames |-> s] : s \in Shifts}
AnchorMatrices == {Transform(Identity3, <<2, 4, 6>>)}
Anchors ==
    [exists : BOOLEAN, centroid_shift : ShiftTracks,
     matrix_world : AnchorMatrices]

\* the selected camera: its world transform at each timeline position
CameraTrack(rot) == [f \in Frames |-> Transform(rot, <<f, 0, 0>>)]
SelectedCameras == {[matrix_world |-> CameraTrack(Identity3)]}

\* a scene whose anchor is rotated and whose shift and camera are animated
SceneAnchors ==
    [exists : {TRUE}, centroid_shift : [Frames -> Shifts],
     matrix_world : {Transform(r, t) : r \in {Identity3, RotZ90},
                                       t \in {<<0, 0, 0>>, <<2, 4, 6>>}}]
SceneCameras == {[matrix_world |-> CameraTrack(r)] : r \in {Identity3, RotZ90}}

RECURSIVE Ascending(_)
Ascending(s) ==
    \/ Len(s) <= 1
    \/ s[1] < s[2] /\ Ascending(Tail(s))

\* get_scene_animation_indices(): an ordered list of frame indices
FrameLists ==
    {s \in UNION {[1..n -> 0..MaxFrame] : n \in 0..(MaxFrame + 1)} : Ascending(s)}

(***************************************************************************)
(* Temp files                                                              *)
(***************************************************************************)
TmpPath(n) == <<"/tmp/tmp">> \o IntToStr(n)
TmpPaths == {TmpPath(n) : n \in 1..MaxTmp}

\* a temp directory with room for the files of a second invocation
SharedTmpPaths == {TmpPath(n) : n \in 1..(MaxTmp + 1)}

NoData == [kind |-> "empty", cameras |-> <<>>, shift |-> None, rows |-> <<>>]
RequestData(cams, shift) ==
    [kind |-> "request", cameras |-> cams, shift |-> shift, rows |-> <<>>]
ArrayData(rows) ==
    [kind |-> "array", cameras |-> <<>>, shift |-> None, rows |-> rows]
GarbageData == [kind |-> "garbage", cameras |-> <<>>, shift |-> None, rows |-> <<>>]

Absent == [exists |-> FALSE, data |-> NoData]
EmptyFile == [exists |-> TRUE, data |-> NoData]

\* a NamedTemporaryFile object; bound is FALSE while the local is unassigned
NoHandle == [bound |-> FALSE, name |-> <<>>, closed |-> TRUE, delete |-> FALSE]
OpenHandle(path, delete) ==
    [bound |-> TRUE, name |-> path, closed |-> FALSE, delete |-> delete]

\* os.path.isfile
IsFile(f, path) == path \in DOMAIN f /\ f[path].exists

\* os.unlink of an existing path
Unlink(f, path) == [f EXCEPT ![path] = Absent]

\* NamedTemporaryFile.close(): closing twice is allowed, and a delete=True
\* file is removed when it is closed the first time
CloseHandle(h) == [h EXCEPT !.closed = TRUE]
CloseFs(f, h) ==
    IF h.bound /\ ~h.closed /\ h.delete /\ IsFile(f, h.name)
    THEN Unlink(f, h.name)
    ELSE f

Event(op, arg) == [op |-> op, arg |-> arg]

NoImage == [width |-> 0, height |-> 0, pixels |-> <<>>]

NoProc == [state |-> "none", returncode |-> 0]

Unbound == [bound |-> FALSE, value |-> None]
Bound(v) == [bound |-> TRUE, value |-> v]

(***************************************************************************)
(* create_instant_ngp_cmd                                                  *)
(***************************************************************************)
\* Mutant of ParameterList: the optional values are compared with "" as they
\* are, without strip()
ParameterListNoStrip(s, json_name, array_name, out_dp) ==
    <<<<"--load_snapshot">>, s.view_synthesis_snapshot_fp>>
    \o <<<<"--temp_json_ifp">>, json_name>>
    \o <<<<"--temp_array_ofp">>, array_name>>
    \o <<<<"--samples_per_pixel">>, IntToStr(s.samples_per_pixel)>>
    \o (IF s.additional_system_dps # <<>>
        THEN <<<<"--additional_system_dps">>, s.additional_system_dps>>
        ELSE <<>>)
    \o (IF ~out_dp.isNone /\ out_dp.val # <<>>
        THEN <<<<"--additional_output_dp">>, out_dp.val>>
        ELSE <<>>)

\* Mutant of ParameterList: the two temp file parameters are left out
ParameterListNoTempFiles(s, json_name, array_name, out_dp) ==
    <<<<"--load_snapshot">>, s.view_synthesis_snapshot_fp>>
    \o <<<<"--samples_per_pixel">>, IntToStr(s.samples_per_pixel)>>
    \o (IF Strip(s.additional_system_dps) # <<>>
        THEN <<<<"--additional_system_dps">>, s.additional_system_dps>>
        ELSE <<>>)
    \o (IF ~out_dp.isNone /\ Strip(out_dp.val) # <<>>
        THEN <<<<"--additional_output_dp">>, out_dp.val>>
        ELSE <<>>)

\* lines 252-265: the parameters handed to the engine
ParameterList(s, json_name, array_name, out_dp) ==
    <<<<"--load_snapshot">>, s.view_synthesis_snapshot_fp>>
    \o <<<<"--temp_json_ifp">>, json_name>>
    \o <<<<"--temp_array_ofp">>, array_name>>
    \o <<<<"--samples_per_pixel">>, IntToStr(s.samples_per_pixel)>>
    \o (IF Strip(s.additional_system_dps) # <<>>
        THEN <<<<"--additional_system_dps">>, s.additional_system_dps>>
        ELSE <<>>)
    \o (IF ~out_dp.isNone /\ Strip(out_dp.val) # <<>>
        THEN <<<<"--additional_output_dp">>, out_dp.val>>
        ELSE <<>>)

\* lines 224-237: python_exe_fp, conda_exe_fp and conda_env_name are assigned
\* only under these two selections
EnvironmentBound(s) ==
    s.execution_environment \in {"CONDA", "DEFAULT PYTHON"}

\* lines 224-237 and 271-277: the call of create_subprocess_command
SubprocessArgs(s, parameter_list) ==
    [script_fp |-> s.view_synthesis_executable_fp,
     parameter_list |-> parameter_list,
     python_exe_fp |->
        IF s.execution_environment = "DEFAULT PYTHON"
        THEN Some(s.python_exe_fp)
        ELSE None,
     conda_exe_fp |->
        IF s.execution_environment = "CONDA" THEN Some(s.conda_exe_fp)
        ELSE None,
     conda_env_name |->
        IF s.execution_environment = "CONDA" THEN Some(s.conda_env_name)
        ELSE None]

NoArgs ==
    [script_fp |-> <<>>, parameter_list |-> <<>>, python_exe_fp |-> None,
     conda_exe_fp |-> None, conda_env_name |-> None]

\* process_communication.subprocess_command.create_subprocess_command:
\* conda activates the named environment through the conda executable and
\* then runs the target; a system interpreter is put in front of the target;
\* otherwise the target is invoked directly.
create_subprocess_command(a) ==
    (IF ~a.conda_exe_fp.isNone
     THEN <<a.conda_exe_fp.val, <<"run">>, <<"-n">>, a.conda_env_name.val>>
     ELSE IF ~a.python_exe_fp.isNone
     THEN <<a.python_exe_fp.val>>
     ELSE <<>>)
    \o <<a.script_fp>> \o a.parameter_list

(***************************************************************************)
(* Initial state: the panel settings, the scene and an empty temp          *)
(* directory, before an operator is invoked                                *)
(***************************************************************************)
\* the invocation of the other host process has not started
NoOther == [pc |-> "idle", temp_json_file |-> NoHandle,
            temp_array_file |-> NoHandle]

\* no operator has been invoked yet and the temp directory is empty
Idle ==
    /\ other = NoOther
    /\ pc = "idle"
    /\ variant = "none"
    /\ output_dp = None
    /\ animation_indices = <<>>
    /\ frame_current = 0
    /\ temp_json_file = NoHandle
    /\ temp_array_file = NoHandle
    /\ subprocess_args = NoArgs
    /\ command = <<>>
    /\ cameras = <<>>
    /\ centroid_shift = Unbound
    /\ proc = NoProc
    /\ image = NoImage
    /\ err = "none"
    /\ result = "none"
    /\ calls = <<>>

Init ==
    /\ platform \in Platforms
    /\ settings \in Settings
    /\ exe_is_file \in BOOLEAN
    /\ anchor \in Anchors
    /\ anchor.exists \/ anchor.centroid_shift = [f \in Frames |-> None]
    /\ selected_camera \in SelectedCameras
    /\ fs = [p \in TmpPaths |-> Absent]
    /\ Idle

\* the settings of a working installation
WorkingSettings ==
    [execution_environment |-> "DEFAULT PYTHON",
     conda_exe_fp |-> <<"conda">>,
     conda_env_name |-> <<"base">>,
     python_exe_fp |-> <<"py">>,
     additional_system_dps |-> <<>>,
     view_synthesis_executable_fp |-> <<"run.py">>,
     view_synthesis_snapshot_fp |-> <<"s.msgpack">>,
     samples_per_pixel |-> 4,
     rotation_anchor_obj_name |-> <<"anchor">>]

\* Initial state for the properties of the captured poses: a working
\* installation, and a scene with a rotated anchor and an animated shift
InitScene ==
    /\ platform = "linux"
    /\ settings = WorkingSettings
    /\ exe_is_file = TRUE
    /\ anchor \in SceneAnchors
    /\ selected_camera \in SceneCameras
    /\ fs = [p \in TmpPaths |-> Absent]
    /\ Idle

\* Initial state for two invocations that share the temp directory: a
\* working installation on a platform that has a branch
InitOverlap ==
    /\ platform \in {"linux", "win32"}
    /\ settings = WorkingSettings
    /\ exe_is_file = TRUE
    /\ anchor \in {a \in Anchors : a.exists /\ a.centroid_shift[0].isNone}
    /\ selected_camera \in SelectedCameras
    /\ fs = [p \in SharedTmpPaths |-> Absent]
    /\ Idle

\* an exception leaves the invocation: nothing of the function runs after it
Raise(e) ==
    /\ pc' = "failed"
    /\ err' = e

(***************************************************************************)
(* Operator entry points                                                   *)
(***************************************************************************)
\* RunViewSynthesisOperator.execute: run_view_synth(scene), lines 35-37
RunViewSynthesis ==
    /\ pc = "idle"
    /\ variant' = "single"
    /\ output_dp' = None
    /\ calls' = Append(calls, Event("log", 1))
    /\ pc' = "create_cmd"
    /\ UNCHANGED <<other, selected_camera, platform, settings, exe_is_file,
                   anchor, fs, animation_indices, frame_current,
                   temp_json_file, temp_array_file, subprocess_args, command,
                   cameras, centroid_shift, proc, image, err, result>>

\* ExportViewSynthesisOperator.execute: run_view_synth(scene, save_to_dp)
ExportViewSynthesis ==
    /\ pc = "idle"
    /\ \E dp \in OutputDps : output_dp' = Some(dp)
    /\ variant' = "single"
    /\ calls' = Append(calls, Event("log", 1))
    /\ pc' = "create_cmd"
    /\ UNCHANGED <<other, selected_camera, platform, settings, exe_is_file,
                   anchor, fs, animation_indices, frame_current,
                   temp_json_file, temp_array_file, subprocess_args, command,
                   cameras, centroid_shift, proc, image, err, result>>

\* ExportViewSynthesisAnimOperator.execute, lines 121-124
ExportViewSynthesisAnim ==
    /\ pc = "idle"
    /\ \E dp \in OutputDps : output_dp' = Some(dp)
    /\ variant' = "anim"
    /\ calls' = Append(calls, Event("log", 1))
    /\ pc' = "create_cmd"
    /\ UNCHANGED <<other, selected_camera, platform, settings, exe_is_file,
                   anchor, fs, animation_indices, frame_current,
                   temp_json_file, temp_array_file, subprocess_args, command,
                   cameras, centroid_shift, proc, image, err, result>>

(***************************************************************************)
(* create_instant_ngp_cmd, lines 209-281                                   *)
(***************************************************************************)
\* Mutant of Assertions: the asserts are not executed
AssertionsSkipped(f, json_name, array_name) == TRUE

\* lines 267-269
Assertions(f, json_name, array_name) ==
    /\ exe_is_file
    /\ IsFile(f, json_name)
    /\ IsFile(f, array_name)

\* lines 210-222: the temp files of this platform.  NamedTemporaryFile
\* creates a file under a name that does not exist yet.
\* Mutant of FreePaths: a name is handed out whether or not it is taken
FreePathsAny(f) == DOMAIN f

\* NamedTemporaryFile creates its file exclusively: the name it returns was
\* the name of no file
FreePaths(f) == {p \in DOMAIN f : ~f[p].exists}

\* Mutant of TempFile: the close() calls of lines 219-220 are missing
TempFileKeptOpen(path) ==
    IF platform = "linux"
    THEN OpenHandle(path, TRUE)
    ELSE OpenHandle(path, FALSE)

TempFile(path) ==
    IF platform = "linux"
    THEN OpenHandle(path, TRUE)
    ELSE CloseHandle(OpenHandle(path, FALSE))

\* Mutant of SupportedPlatform: the else branch of line 221 is missing
SupportedPlatformAny(p) == TRUE

\* lines 210-222: the platforms that have a branch
SupportedPlatform(p) == p \in {"linux", "win32"}

CreateInstantNgpCmd ==
    /\ pc = "create_cmd"
    /\ \/ \* line 222: neither linux nor win32
          /\ ~SupportedPlatform(platform)
          /\ Raise("AssertionError")
          /\ UNCHANGED <<fs, temp_json_file, temp_array_file,
                         subprocess_args, command, calls>>
       \/ /\ SupportedPlatform(platform)
          /\ \E p1 \in FreePaths(fs) : \E p2 \in FreePaths(fs) \ {p1} :
                LET created == [fs EXCEPT ![p1] = EmptyFile, ![p2] = EmptyFile]
                    args == SubprocessArgs(settings,
                                ParameterList(settings, p1, p2, output_dp))
                IN  /\ fs' = created
                    /\ temp_json_file' = TempFile(p1)
                    /\ temp_array_file' = TempFile(p2)
                    /\ IF ~Assertions(created, p1, p2)
                       THEN \* lines 267-269
                            /\ Raise("AssertionError")
                            /\ UNCHANGED <<subprocess_args, command, calls>>
                       ELSE IF ~EnvironmentBound(settings)
                       THEN \* line 274 reads an unassigned local
                            /\ Raise("UnboundLocalError")
                            /\ UNCHANGED <<subprocess_args, command, calls>>
                       ELSE /\ subprocess_args' = args
                            /\ command' = create_subprocess_command(args)
                            /\ calls' = Append(calls, Event("log", 2))
                            /\ pc' = IF variant = "anim" THEN "indices"
                                     ELSE "capture"
                            /\ UNCHANGED err
    /\ UNCHANGED <<other, selected_camera, platform, settings, exe_is_file,
                   anchor, variant, output_dp, animation_indices,
                   frame_current, cameras, centroid_shift, proc, image, result>>

(***************************************************************************)
(* shift_selected_camera_relative_to_anchor, lines 177-206                 *)
(***************************************************************************)
\* lines 186-190: the shift is added to the translation column
AddToTranslation(m, s) ==
    [i \in 1..4 |-> [j \in 1..4 |->
        IF i <= 3 /\ j = 4 THEN m[i][j] + s[i] ELSE m[i][j]]]

\* Mutant of RelativeToAnchor: the inverse is composed on the right
RelativeToAnchorOnTheRight(anchor_matrix_world, shift, camera_matrix_world) ==
    LET inverse == invert_transformation_matrix(anchor_matrix_world)
        anchor_matrix_world_inverse ==
            IF shift.isNone THEN inverse
            ELSE AddToTranslation(inverse, shift.val)
    IN  MatMul(camera_matrix_world, anchor_matrix_world_inverse)

\* lines 181-199: the matrix_world given to the copy of the camera
RelativeToAnchor(anchor_matrix_world, shift, camera_matrix_world) ==
    LET inverse == invert_transformation_matrix(anchor_matrix_world)
        anchor_matrix_world_inverse ==
            IF shift.isNone THEN inverse
            ELSE AddToTranslation(inverse, shift.val)
    IN  MatMul(anchor_matrix_world_inverse, camera_matrix_world)

\* The pose captured at a timeline position, with the shift that was read
CameraPose(frame) ==
    [frame |-> frame,
     shift |-> anchor.centroid_shift[frame],
     matrix_world |-> RelativeToAnchor(anchor.matrix_world,
                                       anchor.centroid_shift[frame],
                                       selected_camera.matrix_world[frame])]

\* single shot, line 41
ShiftSelectedCamera ==
    /\ pc = "capture"
    /\ calls' = Append(calls, Event("shift_camera", frame_current))
    /\ IF ~anchor.exists
       THEN \* line 178
            /\ Raise("KeyError")
            /\ UNCHANGED <<cameras, centroid_shift>>
       ELSE /\ cameras' = <<CameraPose(frame_current)>>
            /\ centroid_shift' = Bound(anchor.centroid_shift[frame_current])
            /\ pc' = "write"
            /\ UNCHANGED err
    /\ UNCHANGED <<other, selected_camera, platform, settings, exe_is_file,
                   anchor, fs, variant, output_dp, animation_indices,
                   frame_current, temp_json_file, temp_array_file,
                   subprocess_args, command, proc, image, result>>

\* line 128
GetSceneAnimationIndices ==
    /\ pc = "indices"
    /\ animation_indices' \in FrameLists
    /\ pc' = "loop"
    /\ UNCHANGED <<other, selected_camera, platform, settings, exe_is_file,
                   anchor, fs, variant, output_dp, frame_current,
                   temp_json_file, temp_array_file, subprocess_args, command,
                   cameras, centroid_shift, proc, image, err, result, calls>>

\* Mutant of CaptureFrame: the timeline is not moved before the capture
CaptureFrameNoSeek ==
    /\ pc = "loop"
    /\ Len(cameras) < Len(animation_indices)
    /\ calls' = Append(calls, Event("shift_camera", frame_current))
    /\ IF ~anchor.exists
       THEN /\ Raise("KeyError")
            /\ UNCHANGED <<cameras, centroid_shift>>
       ELSE /\ cameras' =
                 Append(cameras, CameraPose(frame_current))
            /\ centroid_shift' = Bound(anchor.centroid_shift[frame_current])
            /\ UNCHANGED <<pc, err>>
    /\ UNCHANGED <<other, selected_camera, platform, settings, exe_is_file,
                   anchor, fs, variant, output_dp, animation_indices,
                   frame_current, temp_json_file, temp_array_file,
                   subprocess_args, command, proc, image, result>>

\* Mutant of CaptureFrame: the shift of the first captured frame is kept
CaptureFrameFirstShift ==
    /\ pc = "loop"
    /\ Len(cameras) < Len(animation_indices)
    /\ LET idx == animation_indices[Len(cameras) + 1]
       IN  /\ frame_current' = idx
           /\ calls' = calls \o <<Event("frame_set", idx),
                                  Event("shift_camera", idx)>>
           /\ IF ~anchor.exists
              THEN /\ Raise("KeyError")
                   /\ UNCHANGED <<cameras, centroid_shift>>
              ELSE /\ cameras' = Append(cameras, CameraPose(idx))
                   /\ centroid_shift' =
                        IF centroid_shift.bound THEN centroid_shift
                        ELSE Bound(anchor.centroid_shift[idx])
                   /\ UNCHANGED <<pc, err>>
    /\ UNCHANGED <<other, selected_camera, platform, settings, exe_is_file,
                   anchor, fs, variant, output_dp, animation_indices,
                   temp_json_file, temp_array_file, subprocess_args, command,
                   proc, image, result>>

\* lines 131-134: one iteration of the loop
CaptureFrame ==
    /\ pc = "loop"
    /\ Len(cameras) < Len(animation_indices)
    /\ LET idx == animation_indices[Len(cameras) + 1]
       IN  /\ frame_current' = idx
           /\ calls' = calls \o <<Event("frame_set", idx),
                                  Event("shift_camera", idx)>>
           /\ IF ~anchor.exists
              THEN /\ Raise("KeyError")
                   /\ UNCHANGED <<cameras, centroid_shift>>
              ELSE /\ cameras' =
                        Append(cameras, CameraPose(idx))
                   /\ centroid_shift' = Bound(anchor.centroid_shift[idx])
                   /\ UNCHANGED <<pc, err>>
    /\ UNCHANGED <<other, selected_camera, platform, settings, exe_is_file,
                   anchor, fs, variant, output_dp, animation_indices,
                   temp_json_file, temp_array_file, subprocess_args, command,
                   proc, image, result>>

\* the loop is exhausted
LoopDone ==
    /\ pc = "loop"
    /\ Len(cameras) = Len(animation_indices)
    /\ pc' = "write"
    /\ UNCHANGED <<other, selected_camera, platform, settings, exe_is_file,
                   anchor, fs, variant, output_dp, animation_indices,
                   frame_current, temp_json_file, temp_array_file,
                   subprocess_args, command, cameras, centroid_shift, proc,
                   image, err, result, calls>>

(***************************************************************************)
(* InstantNGPFileHandler.write_instant_ngp_file, lines 44-48 and 137-141   *)
(***************************************************************************)
\* Mutant of CentroidShiftAssigned: centroid_shift is preset to None before
\* the loop
CentroidShiftPreset(local) == TRUE

\* line 47 and line 140 read the local centroid_shift, which only line 41 and
\* line 133 assign
CentroidShiftAssigned(local) == local.bound

WriteInstantNgpFile ==
    /\ pc = "write"
    /\ IF ~CentroidShiftAssigned(centroid_shift)
       THEN \* line 140 with an empty frame list
            /\ Raise("UnboundLocalError")
            /\ UNCHANGED <<fs, calls>>
       ELSE /\ calls' = Append(calls, Event("write", Len(cameras)))
            /\ \/ /\ fs' = [fs EXCEPT ![temp_json_file.name].data =
                               RequestData(cameras, centroid_shift.value)]
                  /\ pc' = "popen"
                  /\ UNCHANGED err
               \/ \* the handler fails, with nothing or a part written
                  /\ \E d \in {NoData, GarbageData} :
                        fs' = [fs EXCEPT ![temp_json_file.name].data = d]
                  /\ Raise("WriteError")
    /\ UNCHANGED <<other, selected_camera, platform, settings, exe_is_file,
                   anchor, variant, output_dp, animation_indices,
                   frame_current, temp_json_file, temp_array_file,
                   subprocess_args, command, cameras, centroid_shift, proc,
                   image, result>>

(***************************************************************************)
(* The child process, lines 50-51 and 143-144                              *)
(***************************************************************************)
\* subprocess.Popen(command)
Popen ==
    /\ pc = "popen"
    /\ \/ /\ proc' = [state |-> "running", returncode |-> 0]
          /\ calls' = Append(calls, Event("Popen", 0))
          /\ pc' = "communicate"
          /\ UNCHANGED err
       \/ \* the first word of the command cannot be executed
          /\ Raise("OSError")
          /\ UNCHANGED <<proc, calls>>
    /\ UNCHANGED <<other, selected_camera, platform, settings, exe_is_file,
                   anchor, fs, variant, output_dp, animation_indices,
                   frame_current, temp_json_file, temp_array_file,
                   subprocess_args, command, cameras, centroid_shift, image,
                   result>>

\* the value that follows a flag in an argument vector
ArgValues(cmd, flag) ==
    {cmd[i + 1] : i \in {j \in 1..(Len(cmd) - 1) : cmd[j] = flag}}

\* response arrays of shape (height, width, channels): a sequence of rows, a
\* row a sequence of pixels, a pixel a sequence of channel values; every
\* element has a value of its own
Channels == 1..2

ArrayOfShape(h, w) ==
    [i \in 1..h |-> [j \in 1..w |-> [k \in Channels |->
        ((i - 1) * w + (j - 1)) * Cardinality(Channels) + k]]]

Arrays == {ArrayOfShape(h, w) : h \in 1..MaxRows, w \in 1..MaxCols}

ExitCodes == {0, 1}

\* The engine is an opaque program: it ends with any exit status, having
\* written an array, something else or nothing to the path it was given.
EngineExit ==
    /\ proc.state = "running"
    /\ \E code \in ExitCodes :
          /\ proc' = [state |-> "exited", returncode |-> code]
          /\ calls' = Append(calls, Event("exit", code))
    /\ \/ UNCHANGED fs
       \/ \E path \in ArgValues(command, <<"--temp_array_ofp">>) \cap DOMAIN fs :
          \E d \in {ArrayData(a) : a \in Arrays} \cup {GarbageData} :
             fs' = [fs EXCEPT ![path] = [exists |-> TRUE, data |-> d]]
    /\ UNCHANGED <<other, selected_camera, platform, settings, exe_is_file,
                   anchor, pc, variant, output_dp, animation_indices,
                   frame_current, temp_json_file, temp_array_file,
                   subprocess_args, command, cameras, centroid_shift, image,
                   err, result>>

\* Mutant of Communicate: the host goes on without waiting for the child
CommunicateNoWait ==
    /\ pc = "communicate"
    /\ calls' = Append(calls, Event("communicate", 0))
    /\ pc' = IF variant = "single" THEN "show" ELSE "cleanup"
    /\ UNCHANGED <<other, selected_camera, platform, settings, exe_is_file,
                   anchor, fs, variant, output_dp, animation_indices,
                   frame_current, temp_json_file, temp_array_file,
                   subprocess_args, command, cameras, centroid_shift, proc,
                   image, err, result>>

\* Mutant of Communicate: the animation variant shows the response too
CommunicateThenShow ==
    /\ pc = "communicate"
    /\ proc.state = "exited"
    /\ calls' = Append(calls, Event("communicate", 0))
    /\ pc' = "show"
    /\ UNCHANGED <<other, selected_camera, platform, settings, exe_is_file,
                   anchor, fs, variant, output_dp, animation_indices,
                   frame_current, temp_json_file, temp_array_file,
                   subprocess_args, command, cameras, centroid_shift, proc,
                   image, err, result>>

\* child_process.communicate() returns once the child has ended; its exit
\* status is not looked at
Communicate ==
    /\ pc = "communicate"
    /\ proc.state = "exited"
    /\ calls' = Append(calls, Event("communicate", 0))
    /\ pc' = IF variant = "single" THEN "show" ELSE "cleanup"
    /\ UNCHANGED <<other, selected_camera, platform, settings, exe_is_file,
                   anchor, fs, variant, output_dp, animation_indices,
                   frame_current, temp_json_file, temp_array_file,
                   subprocess_args, command, cameras, centroid_shift, proc,
                   image, err, result>>

(***************************************************************************)
(* show_image_in_blender, lines 162-175                                    *)
(***************************************************************************)
\* process_communication.file_communication.read_np_array_from_file
read_np_array_from_file(f, path) ==
    IF ~IsFile(f, path) THEN [error |-> "ResponseMissing", rows |-> <<>>]
    ELSE IF f[path].data.kind # "array"
    THEN [error |-> "ResponseMalformed", rows |-> <<>>]
    ELSE [error |-> "none", rows |-> f[path].data.rows]

\* Mutant of FlipUd: the array is handed on as it was read
FlipUdMissing(rows) == rows

\* np.flipud
FlipUd(rows) == [i \in 1..Len(rows) |-> rows[Len(rows) + 1 - i]]

RECURSIVE Flatten(_)
Flatten(seqs) ==
    IF seqs = <<>> THEN <<>> ELSE Head(seqs) \o Flatten(Tail(seqs))

\* ndarray.ravel() of a 3-dimensional array
Ravel(a) == Flatten(Flatten(a))

\* lines 168-174: the image made from the array that was read
BlenderImage(a) ==
    [width |-> Len(a[1]), height |-> Len(a), pixels |-> Ravel(FlipUd(a))]

ShowImageInBlender ==
    /\ pc = "show"
    /\ LET read == read_np_array_from_file(fs, temp_array_file.name)
       IN  IF read.error # "none"
           THEN /\ calls' = Append(calls, Event("read", 0))
                /\ Raise(read.error)
                /\ UNCHANGED image
           ELSE /\ calls' = calls \o <<Event("read", 0), Event("display", 0)>>
                /\ \/ /\ image' = BlenderImage(read.rows)
                      /\ pc' = "cleanup"
                      /\ UNCHANGED err
                   \/ \* the host refuses the image
                      /\ Raise("DisplayError")
                      /\ UNCHANGED image
    /\ UNCHANGED <<other, selected_camera, platform, settings, exe_is_file,
                   anchor, fs, variant, output_dp, animation_indices,
                   frame_current, temp_json_file, temp_array_file,
                   subprocess_args, command, cameras, centroid_shift, proc,
                   result>>

(***************************************************************************)
(* cleanup_tmp_files, lines 154-160                                        *)
(***************************************************************************)
\* What the function does to the temp directory and the two file objects,
\* and the exception it ends with ("none" when it returns)
cleanup_tmp_files(plat, f, json_file, array_file) ==
    IF plat # "win32"
    THEN [fs |-> f, json |-> json_file, array |-> array_file, error |-> "none"]
    ELSE LET f1 == CloseFs(f, json_file)
             f2 == CloseFs(f1, array_file)
             closed == [json |-> CloseHandle(json_file),
                        array |-> CloseHandle(array_file)]
         IN  IF ~IsFile(f2, json_file.name)
             THEN [fs |-> f2, json |-> closed.json, array |-> closed.array,
                   error |-> "FileNotFoundError"]
             ELSE IF ~IsFile(Unlink(f2, json_file.name), array_file.name)
             THEN [fs |-> Unlink(f2, json_file.name), json |-> closed.json,
                   array |-> closed.array, error |-> "FileNotFoundError"]
             ELSE [fs |-> Unlink(Unlink(f2, json_file.name), array_file.name),
                   json |-> closed.json, array |-> closed.array,
                   error |-> "none"]

CleanupTmpFiles ==
    /\ pc = "cleanup"
    /\ LET r == cleanup_tmp_files(platform, fs, temp_json_file, temp_array_file)
       IN  /\ fs' = r.fs
           /\ temp_json_file' = r.json
           /\ temp_array_file' = r.array
           /\ calls' = Append(calls, Event("cleanup", 0))
           /\ IF r.error # "none"
              THEN Raise(r.error)
              ELSE pc' = "finish" /\ UNCHANGED err
    /\ UNCHANGED <<other, selected_camera, platform, settings, exe_is_file,
                   anchor, variant, output_dp, animation_indices,
                   frame_current, subprocess_args, command, cameras,
                   centroid_shift, proc, image, result>>

\* The file objects are locals of the invocation.  When the last reference
\* goes, the object is finalized: it is closed, which removes a delete=True
\* file.
ReleasedFs(f) == CloseFs(CloseFs(f, temp_json_file), temp_array_file)

\* lines 57-60 and 148-151: the last log line and the return
Finish ==
    /\ pc = "finish"
    /\ calls' = Append(calls, Event("log", 3))
    /\ result' = "FINISHED"
    /\ pc' = "done"
    /\ fs' = ReleasedFs(fs)
    /\ temp_json_file' = CloseHandle(temp_json_file)
    /\ temp_array_file' = CloseHandle(temp_array_file)
    /\ UNCHANGED <<other, selected_camera, platform, settings, exe_is_file,
                   anchor, variant, output_dp, animation_indices,
                   frame_current, subprocess_args, command, cameras,
                   centroid_shift, proc, image, err>>

\* After an exception the traceback keeps the frame and its locals; the file
\* objects are finalized when the host drops the traceback, which it does at
\* a time of its own.
ReleaseLocals ==
    /\ pc = "failed"
    /\ \/ temp_json_file.bound /\ ~temp_json_file.closed
       \/ temp_array_file.bound /\ ~temp_array_file.closed
    /\ fs' = ReleasedFs(fs)
    /\ temp_json_file' = CloseHandle(temp_json_file)
    /\ temp_array_file' = CloseHandle(temp_array_file)
    /\ UNCHANGED <<other, selected_camera, platform, settings, exe_is_file,
                   anchor, pc, variant, output_dp, animation_indices,
                   frame_current, subprocess_args, command, cameras,
                   centroid_shift, proc, image, err, result, calls>>

Next ==
    \/ RunViewSynthesis
    \/ ExportViewSynthesis
    \/ ExportViewSynthesisAnim
    \/ CreateInstantNgpCmd
    \/ ShiftSelectedCamera
    \/ GetSceneAnimationIndices
    \/ CaptureFrame
    \/ LoopDone
    \/ WriteInstantNgpFile
    \/ Popen
    \/ EngineExit
    \/ Communicate
    \/ ShowImageInBlender
    \/ CleanupTmpFiles
    \/ Finish
    \/ ReleaseLocals

Spec == Init /\ [][Next]_vars

(***************************************************************************)
(* cleanup_tmp_files called a second time on the files of an invocation,   *)
(* right after the call of line 55 or 146 returned                         *)
(***************************************************************************)
CleanupAgain ==
    /\ pc = "finish"
    /\ Cardinality({i \in 1..Len(calls) : calls[i].op = "cleanup"}) = 1
    /\ LET r == cleanup_tmp_files(platform, fs, temp_json_file, temp_array_file)
       IN  /\ fs' = r.fs
           /\ temp_json_file' = r.json
           /\ temp_array_file' = r.array
           /\ calls' = Append(calls, Event("cleanup", 0))
           /\ IF r.error # "none"
              THEN Raise(r.error)
              ELSE UNCHANGED <<pc, err>>
    /\ UNCHANGED <<other, selected_camera, platform, settings, exe_is_file,
                   anchor, variant, output_dp, animation_indices,
                   frame_current, subprocess_args, command, cameras,
                   centroid_shift, proc, image, result>>

\* the steps of an invocation up to the written request
NextScene ==
    \/ RunViewSynthesis
    \/ ExportViewSynthesisAnim
    \/ CreateInstantNgpCmd
    \/ ShiftSelectedCamera
    \/ GetSceneAnimationIndices
    \/ CaptureFrame
    \/ LoopDone
    \/ WriteInstantNgpFile

SpecScene == InitScene /\ [][NextScene]_vars

SpecCleanupTwice == Init /\ [][Next \/ CleanupAgain]_vars

(***************************************************************************)
(* A second invocation of the same operator, by another host process that  *)
(* shares the temp directory: its steps on the temp files                  *)
(***************************************************************************)
OtherRequest == RequestData(<<>>, None)
OtherArray == ArrayData(<<<<<<0, 0>>>>>>)

\* lines 210-220
OtherCreate ==
    /\ other.pc = "idle"
    /\ SupportedPlatform(platform)
    /\ \E p1 \in FreePaths(fs) : \E p2 \in FreePaths(fs) \ {p1} :
          /\ fs' = [fs EXCEPT ![p1] = EmptyFile, ![p2] = EmptyFile]
          /\ other' = [pc |-> "write", temp_json_file |-> TempFile(p1),
                       temp_array_file |-> TempFile(p2)]
    /\ UNCHANGED <<selected_camera, platform, settings, exe_is_file, anchor,
                   pc, variant, output_dp, animation_indices, frame_current,
                   temp_json_file, temp_array_file, subprocess_args, command,
                   cameras, centroid_shift, proc, image, err, result, calls>>

\* lines 44-48: the request is written to the path of its request file
OtherWrite ==
    /\ other.pc = "write"
    /\ fs' = [fs EXCEPT ![other.temp_json_file.name].data = OtherRequest]
    /\ other' = [other EXCEPT !.pc = "communicate"]
    /\ UNCHANGED <<selected_camera, platform, settings, exe_is_file, anchor,
                   pc, variant, output_dp, animation_indices, frame_current,
                   temp_json_file, temp_array_file, subprocess_args, command,
                   cameras, centroid_shift, proc, image, err, result, calls>>

\* lines 50-51: its engine writes the response to the path it was given
OtherEngine ==
    /\ other.pc = "communicate"
    /\ fs' = [fs EXCEPT ![other.temp_array_file.name] =
                  [exists |-> TRUE, data |-> OtherArray]]
    /\ other' = [other EXCEPT !.pc = "cleanup"]
    /\ UNCHANGED <<selected_camera, platform, settings, exe_is_file, anchor,
                   pc, variant, output_dp, animation_indices, frame_current,
                   temp_json_file, temp_array_file, subprocess_args, command,
                   cameras, centroid_shift, proc, image, err, result, calls>>

\* an exception leaves it
OtherRaise ==
    /\ other.pc \in {"write", "communicate", "cleanup"}
    /\ other' = [other EXCEPT !.pc = "failed"]
    /\ UNCHANGED <<selected_camera, platform, settings, exe_is_file, anchor,
                   fs, pc, variant, output_dp, animation_indices,
                   frame_current, temp_json_file, temp_array_file,
                   subprocess_args, command, cameras, centroid_shift, proc,
                   image, err, result, calls>>

\* line 55
OtherCleanup ==
    /\ other.pc = "cleanup"
    /\ LET r == cleanup_tmp_files(platform, fs, other.temp_json_file,
                                  other.temp_array_file)
       IN  /\ fs' = r.fs
           /\ other' = [pc |-> IF r.error # "none" THEN "failed" ELSE "finish",
                        temp_json_file |-> r.json,
                        temp_array_file |-> r.array]
    /\ UNCHANGED <<selected_camera, platform, settings, exe_is_file, anchor,
                   pc, variant, output_dp, animation_indices, frame_current,
                   temp_json_file, temp_array_file, subprocess_args, command,
                   cameras, centroid_shift, proc, image, err, result, calls>>

\* its return, or the release of its locals after an exception
OtherRelease ==
    /\ \/ other.pc = "finish"
       \/ /\ other.pc = "failed"
          /\ ~other.temp_json_file.closed \/ ~other.temp_array_file.closed
    /\ fs' = CloseFs(CloseFs(fs, other.temp_json_file), other.temp_array_file)
    /\ other' = [pc |-> IF other.pc = "finish" THEN "done" ELSE "failed",
                 temp_json_file |-> CloseHandle(other.temp_json_file),
                 temp_array_file |-> CloseHandle(other.temp_array_file)]
    /\ UNCHANGED <<selected_camera, platform, settings, exe_is_file, anchor,
                   pc, variant, output_dp, animation_indices, frame_current,
                   temp_json_file, temp_array_file, subprocess_args, command,
                   cameras, centroid_shift, proc, image, err, result, calls>>

\* the single-shot invocation of this host process, and the other one
NextOverlap ==
    \/ RunViewSynthesis
    \/ CreateInstantNgpCmd
    \/ ShiftSelectedCamera
    \/ WriteInstantNgpFile
    \/ Popen
    \/ EngineExit
    \/ Communicate
    \/ ShowImageInBlender
    \/ CleanupTmpFiles
    \/ Finish
    \/ ReleaseLocals
    \/ OtherCreate
    \/ OtherWrite
    \/ OtherEngine
    \/ OtherRaise
    \/ OtherCleanup
    \/ OtherRelease

SpecOverlap == InitOverlap /\ [][NextOverlap]_vars

(***************************************************************************)
(* Properties                                                              *)
(***************************************************************************)
Called(op) == \E i \in 1..Len(calls) : calls[i].op = op

CountCalls(op) == Cardinality({i \in 1..Len(calls) : calls[i].op = op})

\* every call of op is preceded by a call of before
Precedes(before, op) ==
    \A i \in 1..Len(calls) :
        calls[i].op = op => \E j \in 1..(i - 1) : calls[j].op = before

\* the invocation is over and its locals are gone
Ended ==
    \/ pc = "done"
    \/ /\ pc = "failed"
       /\ temp_json_file.bound => temp_json_file.closed
       /\ temp_array_file.bound => temp_array_file.closed

\* C1: in both orchestrators the request has been written completely before
\* the process is spawned, and the response is opened for reading only after
\* the process has ended: a spawned process finds the request of this
\* invocation in the request file, and nothing is read while it runs.
C1_WriteBeforeSpawnReadAfterExit ==
    /\ Precedes("write", "Popen")
    /\ Precedes("exit", "read")
    /\ Precedes("Popen", "exit")
    /\ proc.state # "none" => Called("Popen")
    /\ proc.state = "running" =>
          /\ IsFile(fs, temp_json_file.name)
          /\ fs[temp_json_file.name].data =
                RequestData(cameras, centroid_shift.value)
          /\ ~Called("read")
    /\ Called("read") => proc.state = "exited"

\* C1 witness: a single-shot invocation has read the response of a process
\* that ended
C1_Witness ==
    /\ variant = "single"
    /\ Called("read")
    /\ proc.state = "exited"
    /\ image # NoImage

\* C2: when the engine ends with a non-zero status, the single-shot
\* orchestrator does not read the response, does not display anything, does
\* not end as FINISHED, and has run cleanup when it is over.
C2_ProcessFailureIsFatal ==
    (variant = "single" /\ proc.state = "exited" /\ proc.returncode # 0) =>
        /\ ~Called("read")
        /\ ~Called("display")
        /\ result # "FINISHED"
        /\ pc \in {"done", "failed"} => Called("cleanup") /\ err # "none"

\* C3: once an invocation that created its temp files has ended, on
\* whatever path and platform, neither temp file is left in the file system.
C3_TempFilesDeletedOnEveryExit ==
    (Ended /\ temp_json_file.bound /\ temp_array_file.bound) =>
        /\ ~IsFile(fs, temp_json_file.name)
        /\ ~IsFile(fs, temp_array_file.name)

\* C4: an invocation that failed has executed the cleanup step, and no
\* invocation is over without it.
C4_FailureRunsCleanup ==
    pc \in {"done", "failed"} => Called("cleanup")

\* C5: cleanup is idempotent: a second call of cleanup_tmp_files on the same
\* two files raises nothing and changes neither the file system nor the file
\* objects.
C5_CleanupIdempotent ==
    [][CleanupAgain =>
          /\ err' = "none"
          /\ fs' = fs
          /\ temp_json_file' = temp_json_file
          /\ temp_array_file' = temp_array_file]_vars

NoProcessEver ==
    /\ proc.state = "none"
    /\ ~Called("Popen")
    /\ ~Called("read")
    /\ ~Called("display")
    /\ result # "FINISHED"

\* C6: when the engine path is no existing file, when the anchor object does
\* not exist, or when the request cannot be written, the invocation aborts:
\* it never gets past the failing step, no process is spawned and no response
\* is read or displayed.
C6_AbortBeforeSpawn ==
    /\ ~exe_is_file =>
          NoProcessEver /\ pc \in {"idle", "create_cmd", "failed"}
    /\ ~anchor.exists =>
          /\ NoProcessEver
          /\ pc \notin {"popen", "communicate", "show", "cleanup", "finish",
                        "done"}
          /\ ~Called("write")
    /\ err = "WriteError" => NoProcessEver /\ pc = "failed"

\* C6 witness: the assert of line 267 stopped an invocation that had created
\* its temp files
C6_Witness ==
    /\ ~exe_is_file
    /\ temp_json_file.bound
    /\ pc = "failed"
    /\ err = "AssertionError"

IsCaptureCall(e) == e.op \in {"frame_set", "shift_camera", "write", "Popen"}

RECURSIVE ExpectedCapture(_)
ExpectedCapture(frames) ==
    IF frames = <<>> THEN <<>>
    ELSE <<Event("frame_set", Head(frames)), Event("shift_camera", Head(frames))>>
         \o ExpectedCapture(Tail(frames))

IsPrefix(a, b) == Len(a) <= Len(b) /\ SubSeq(b, 1, Len(a)) = a

\* C7: in the animation variant the timeline is moved to each index, in list
\* order, right before the corrector is called for it; and an invocation that
\* gets as far as the process has called the corrector once per index, has
\* written one request holding one pose per index in list order, and has
\* spawned one process.
C7_AnimationSequence ==
    variant = "anim" =>
        LET n == Len(animation_indices)
            host == SelectSeq(calls, IsCaptureCall)
            expected == ExpectedCapture(animation_indices)
                        \o <<Event("write", n), Event("Popen", 0)>>
        IN  /\ IsPrefix(host, expected)
            /\ Len(cameras) <= n
            /\ \A i \in 1..Len(cameras) :
                  cameras[i].frame = animation_indices[i]
            /\ cameras # <<>> =>
                  frame_current = animation_indices[Len(cameras)]
            /\ proc.state # "none" =>
                  /\ host = expected
                  /\ CountCalls("shift_camera") = n
                  /\ CountCalls("write") = 1
                  /\ CountCalls("Popen") = 1
            /\ proc.state = "running" =>
                  LET written == fs[temp_json_file.name].data.cameras
                  IN  /\ Len(written) = n
                      /\ \A i \in 1..n : written[i].frame = animation_indices[i]

\* C7 witness: an animation invocation over at least two frames whose
\* process has ended
C7_Witness ==
    /\ variant = "anim"
    /\ Len(animation_indices) >= 2
    /\ proc.state = "exited"

NonBlank(s) == \E i \in 1..Len(s) : s[i] \notin Whitespace

IsNumeral(s) ==
    /\ s # <<>>
    /\ \A i \in 1..Len(s) : \E d \in 1..10 : DigitChars[d] = s[i]

DigitValue(c) == (CHOOSE d \in 1..10 : DigitChars[d] = c) - 1

RECURSIVE NumeralValue(_)
NumeralValue(s) ==
    IF s = <<>> THEN 0
    ELSE 10 * NumeralValue(SubSeq(s, 1, Len(s) - 1)) + DigitValue(s[Len(s)])

IsIntNumeral(s) ==
    \/ IsNumeral(s)
    \/ s # <<>> /\ Head(s) = "-" /\ IsNumeral(Tail(s))

IntNumeralValue(s) ==
    IF Head(s) = "-" THEN 0 - NumeralValue(Tail(s)) ELSE NumeralValue(s)

\* C8: the parameter list holds, in this order, --load_snapshot,
\* --temp_json_ifp, --temp_array_ofp and --samples_per_pixel with their
\* values, then --additional_system_dps only for a value that is not blank,
\* then --additional_output_dp only for a directory that is given and not
\* blank; a blank optional value gives neither a flag nor an argument.
C8_ParameterOrder ==
    subprocess_args # NoArgs =>
        LET pl == subprocess_args.parameter_list
            hasSys == NonBlank(settings.additional_system_dps)
            hasOut == ~output_dp.isNone /\ NonBlank(output_dp.val)
            n == 8 + (IF hasSys THEN 2 ELSE 0) + (IF hasOut THEN 2 ELSE 0)
        IN  /\ Len(pl) = n
            /\ pl[1] = <<"--load_snapshot">>
            /\ pl[2] = settings.view_synthesis_snapshot_fp
            /\ pl[3] = <<"--temp_json_ifp">>
            /\ pl[4] = temp_json_file.name
            /\ pl[5] = <<"--temp_array_ofp">>
            /\ pl[6] = temp_array_file.name
            /\ pl[7] = <<"--samples_per_pixel">>
            /\ IsIntNumeral(pl[8])
            /\ IntNumeralValue(pl[8]) = settings.samples_per_pixel
            /\ hasSys =>
                  /\ pl[9] = <<"--additional_system_dps">>
                  /\ pl[10] = settings.additional_system_dps
            /\ hasOut =>
                  /\ pl[n - 1] = <<"--additional_output_dp">>
                  /\ pl[n] = output_dp.val
            /\ \A i \in 9..n : NonBlank(pl[i])

\* C8 witness: a command was built with both optional values blank but not
\* empty
C8_Witness ==
    /\ subprocess_args # NoArgs
    /\ settings.additional_system_dps = <<" ", "\t">>
    /\ output_dp = Some(<<" ">>)
    /\ Len(subprocess_args.parameter_list) = 8

\* the inputs of the command builder example
C9_Case ==
    /\ subprocess_args # NoArgs
    /\ settings.execution_environment = "DEFAULT PYTHON"
    /\ settings.python_exe_fp = <<"py">>
    /\ settings.view_synthesis_executable_fp = <<"run.py">>
    /\ settings.view_synthesis_snapshot_fp = <<"s.msgpack">>
    /\ settings.samples_per_pixel = 4
    /\ settings.additional_system_dps = <<>>
    /\ output_dp = None

\* C9 as stated: under the system interpreter "py" with script "run.py",
\* snapshot "s.msgpack", 4 samples and no additional paths, the argument
\* vector is py run.py --load_snapshot s.msgpack --samples_per_pixel 4 and
\* nothing else.
C9_ExampleAsStated ==
    C9_Case =>
        command = << <<"py">>, <<"run.py">>, <<"--load_snapshot">>,
                     <<"s.msgpack">>, <<"--samples_per_pixel">>, <<"4">> >>

\* C9 amended: with the same inputs the argument vector is py run.py
\* --load_snapshot s.msgpack --temp_json_ifp <request path> --temp_array_ofp
\* <response path> --samples_per_pixel 4, in that order and nothing else.
C9_ExampleWithTempFiles ==
    C9_Case =>
        command = << <<"py">>, <<"run.py">>, <<"--load_snapshot">>,
                     <<"s.msgpack">>, <<"--temp_json_ifp">>,
                     temp_json_file.name, <<"--temp_array_ofp">>,
                     temp_array_file.name, <<"--samples_per_pixel">>,
                     <<"4">> >>

\* C9 witness: a command was built from the inputs of the example
C9_Witness == C9_Case /\ Len(command) = 10 /\ pc # "failed"

C13_FilesAtArgvPathsAndClosedOnWin32 ==
    /\ proc.state = "running" =>
          /\ ArgValues(command, <<"--temp_json_ifp">>) = {temp_json_file.name}
          /\ ArgValues(command, <<"--temp_array_ofp">>) = {temp_array_file.name}
          /\ IsFile(fs, temp_json_file.name)
          /\ IsFile(fs, temp_array_file.name)
    /\ (platform = "win32" /\ temp_json_file.bound) =>
          /\ temp_json_file.closed /\ ~temp_json_file.delete
          /\ temp_array_file.closed /\ ~temp_array_file.delete
          /\ ~Called("cleanup") =>
                IsFile(fs, temp_json_file.name) /\ IsFile(fs, temp_array_file.name)
          /\ (Called("cleanup") /\ pc \in {"finish", "done"}) =>
                /\ ~IsFile(fs, temp_json_file.name)
                /\ ~IsFile(fs, temp_array_file.name)

\* C13 witness: on win32 a process runs on the two closed files
C13_Witness ==
    /\ platform = "win32"
    /\ proc.state = "running"
    /\ temp_json_file.closed
    /\ IsFile(fs, temp_array_file.name)

\* the calls made after the process ended
AfterExit ==
    LET at == {i \in 1..Len(calls) : calls[i].op = "exit"}
    IN  IF at = {} THEN <<>>
        ELSE SubSeq(calls, (CHOOSE i \in at : TRUE) + 1, Len(calls))

\* C14: the animation variant never reads the response and never calls the
\* display collaborator; once the process has ended only the cleanup and the
\* last log line remain.
C14_AnimationNeverDisplays ==
    variant = "anim" =>
        /\ ~Called("read")
        /\ ~Called("display")
        /\ pc # "show"
        /\ IsPrefix(AfterExit, <<Event("communicate", 0), Event("cleanup", 0),
                                 Event("log", 3)>>)
        /\ pc = "done" =>
              AfterExit = <<Event("communicate", 0), Event("cleanup", 0),
                            Event("log", 3)>>

\* C14 witness: an animation invocation whose process ended is done
C14_Witness ==
    /\ variant = "anim"
    /\ pc = "done"
    /\ platform = "win32"
    /\ \E i \in 1..Len(calls) : calls[i].op = "exit"

\* C17: with an empty list of frame indices the animation operator fails on
\* the unassigned centroid_shift, after its temp files were created and
\* before a request is written or a process spawned; no request without
\* poses is ever written and cleanup_tmp_files is not reached.
C17_EmptyFrameListFails ==
    (variant = "anim" /\ animation_indices = <<>>) =>
        /\ pc \in {"create_cmd", "indices", "loop", "write", "failed"}
        /\ ~Called("write")
        /\ ~Called("Popen")
        /\ ~Called("cleanup")
        /\ proc.state = "none"
        /\ \A p \in TmpPaths : fs[p].data.kind # "request"
        /\ (pc = "failed" /\ subprocess_args # NoArgs) =>
              /\ err = "UnboundLocalError"
              /\ temp_json_file.bound /\ temp_array_file.bound

\* C17 witness: the operator failed at line 140 with an empty frame list
C17_Witness ==
    /\ variant = "anim"
    /\ animation_indices = <<>>
    /\ subprocess_args # NoArgs
    /\ pc = "failed"
    /\ err = "UnboundLocalError"

\* C18: on a platform that is neither linux nor win32 the invocation fails
\* on the assertion before a temp file is created, a command built or logged,
\* a request written or a process spawned.
C18_UnsupportedPlatformFailsFirst ==
    platform \notin {"linux", "win32"} =>
        /\ pc \in {"idle", "create_cmd", "failed"}
        /\ pc = "failed" => err = "AssertionError"
        /\ ~temp_json_file.bound /\ ~temp_array_file.bound
        /\ \A p \in TmpPaths : ~fs[p].exists
        /\ command = <<>> /\ subprocess_args = NoArgs
        /\ calls \in {<<>>, <<Event("log", 1)>>}
        /\ proc.state = "none"

\* C18 witness: an invocation failed on such a platform
C18_Witness ==
    /\ platform \notin {"linux", "win32"}
    /\ pc = "failed"
    /\ err = "AssertionError"

\* C15: the image handed to the display collaborator has the rows of the
\* response in reversed order, columns and channels as they were, its width
\* from the second dimension of the array and its height from the first.
C15_ImageIsResponseFlippedUpDown ==
    (variant = "single" /\ pc = "cleanup") =>
        LET a == fs[temp_array_file.name].data.rows
            h == Len(a)
            w == Len(a[1])
            c == Len(a[1][1])
        IN  /\ fs[temp_array_file.name].data.kind = "array"
            /\ image.height = h
            /\ image.width = w
            /\ Len(image.pixels) = h * w * c
            /\ \A i \in 1..h : \A j \in 1..w : \A k \in 1..c :
                  image.pixels[((i - 1) * w + (j - 1)) * c + k]
                      = a[h + 1 - i][j][k]

\* C15 witness: an array of more than one row and more than one column was
\* displayed
C15_Witness ==
    /\ variant = "single"
    /\ pc = "cleanup"
    /\ image.height > 1
    /\ image.width > 1

\* a captured pose is inverse(anchor) . camera with the shift read at its
\* frame added to the translation: taking the shift off again and composing
\* with the anchor gives back the camera's world transform
Negated(v) == [i \in 1..3 |-> 0 - v[i]]
ShiftOf(s) == IF s.isNone THEN <<0, 0, 0>> ELSE s.val
PoseIsCorrected(pose) ==
    LET s == anchor.centroid_shift[pose.frame]
    IN  /\ pose.shift = s
        /\ MatMul(anchor.matrix_world,
                  AddToTranslation(pose.matrix_world, Negated(ShiftOf(s))))
              = selected_camera.matrix_world[pose.frame]

\* C12: every pose the corrector returns is inverse(anchor) composed on the
\* left of the camera's world transform, with the recorded shift added to the
\* translation column of the inverse and nothing added when no shift is
\* recorded; with a translation-only anchor at t and the camera at the
\* identity the corrected translation is s - t, and t = (1,2,3),
\* s = (0.5,0,0) give (-0.5,-2,-3) (lengths scaled by 2).
C12_CorrectedIsInverseAnchorTimesCamera ==
    \A i \in 1..Len(cameras) :
        LET pose == cameras[i]
            A == anchor.matrix_world
            C == selected_camera.matrix_world[pose.frame]
            s == ShiftOf(anchor.centroid_shift[pose.frame])
        IN  /\ PoseIsCorrected(pose)
            /\ anchor.centroid_shift[pose.frame].isNone =>
                  pose.matrix_world = MatMul(invert_transformation_matrix(A), C)
            /\ (Rotation(A) = Identity3 /\ C = Transform(Identity3, <<0, 0, 0>>)) =>
                  /\ Rotation(pose.matrix_world) = Identity3
                  /\ \A k \in 1..3 :
                        Translation(pose.matrix_world)[k] = s[k] - Translation(A)[k]
            /\ (/\ A = Transform(Identity3, <<2, 4, 6>>)
                /\ C = Transform(Identity3, <<0, 0, 0>>)
                /\ anchor.centroid_shift[pose.frame] = Some(<<1, 0, 0>>)) =>
                  pose.matrix_world = Transform(Identity3, <<-1, -4, -6>>)

\* C12 witness: with a rotated and translated anchor, one pose was corrected
\* with a recorded shift and another, of a moved camera, without one
C12_Witness ==
    /\ Rotation(anchor.matrix_world) = RotZ90
    /\ Translation(anchor.matrix_world) = <<2, 4, 6>>
    /\ \E i \in 1..Len(cameras) : ~cameras[i].shift.isNone
    /\ \E i \in 1..Len(cameras) :
          /\ cameras[i].shift.isNone
          /\ cameras[i].frame > 0

\* C16: in the animation variant with a non-empty frame list the shift written
\* into the request is the one read at the last frame index of the list,
\* whatever was read at earlier indices, and the pose written for each frame
\* carries the shift read at that frame.
C16_LastShiftWins ==
    (variant = "anim" /\ pc = "popen" /\ animation_indices # <<>>) =>
        LET request == fs[temp_json_file.name].data
            last == animation_indices[Len(animation_indices)]
        IN  /\ request.kind = "request"
            /\ request.shift = anchor.centroid_shift[last]
            /\ Len(request.cameras) = Len(animation_indices)
            /\ \A i \in 1..Len(animation_indices) :
                  /\ request.cameras[i].frame = animation_indices[i]
                  /\ PoseIsCorrected(request.cameras[i])

\* C16 witness: a request was written for a frame list whose first frame has a
\* recorded shift and whose last frame has none
C16_Witness ==
    /\ variant = "anim"
    /\ pc = "popen"
    /\ Len(animation_indices) > 1
    /\ ~anchor.centroid_shift[animation_indices[1]].isNone
    /\ anchor.centroid_shift[animation_indices[Len(animation_indices)]].isNone
    /\ fs[temp_json_file.name].data.shift = None

\* the temp-file paths of an invocation
PathsOf(json_file, array_file) ==
    IF json_file.bound THEN {json_file.name, array_file.name} ELSE {}

\* an invocation is in flight from its start to its return or its exception
InFlight(json_file, position) ==
    json_file.bound /\ position \notin {"idle", "done", "failed"}

\* an invocation owns its temp files from their creation until it removes
\* them: by the closing of the handles on linux, by the unlink of its
\* cleanup step on win32 (kept for good when it fails before that step)
Owns(json_file, position) ==
    /\ json_file.bound
    /\ IF platform = "linux"
       THEN ~json_file.closed
       ELSE position \notin {"finish", "done"}

\* C11 as stated: the two paths of an invocation differ, and two invocations
\* whose lifetimes overlap never have a temp-file path in common.
C11_OverlappingLifetimesDisjoint ==
    /\ temp_json_file.bound => temp_json_file.name # temp_array_file.name
    /\ (InFlight(temp_json_file, pc) /\ InFlight(other.temp_json_file, other.pc))
          => PathsOf(temp_json_file, temp_array_file)
                \cap PathsOf(other.temp_json_file, other.temp_array_file) = {}

\* C11 amended: the two paths of an invocation differ; while two invocations
\* both own their temp files, on either platform, they have no path in
\* common; and the files an invocation owns exist and hold what that
\* invocation or its engine put there, never what the other one wrote.
C11_OwnedFilesAreExclusive ==
    /\ temp_json_file.bound => temp_json_file.name # temp_array_file.name
    /\ other.temp_json_file.bound =>
          other.temp_json_file.name # other.temp_array_file.name
    /\ (Owns(temp_json_file, pc) /\ Owns(other.temp_json_file, other.pc))
          => PathsOf(temp_json_file, temp_array_file)
                \cap PathsOf(other.temp_json_file, other.temp_array_file) = {}
    /\ Owns(temp_json_file, pc) =>
          /\ IsFile(fs, temp_json_file.name)
          /\ IsFile(fs, temp_array_file.name)
          /\ fs[temp_json_file.name].data # OtherRequest
          /\ fs[temp_array_file.name].data # OtherArray
          /\ pc \in {"capture", "write"} =>
                /\ fs[temp_json_file.name].data = NoData
                /\ fs[temp_array_file.name].data = NoData
          /\ pc \in {"popen", "communicate", "show", "cleanup"} =>
                fs[temp_json_file.name].data
                    = RequestData(cameras, centroid_shift.value)
    /\ Owns(other.temp_json_file, other.pc) =>
          /\ IsFile(fs, other.temp_json_file.name)
          /\ IsFile(fs, other.temp_array_file.name)
          /\ other.pc = "write" =>
                fs[other.temp_json_file.name].data = NoData
          /\ other.pc \in {"communicate", "cleanup"} =>
                fs[other.temp_json_file.name].data = OtherRequest
          /\ other.pc \in {"write", "communicate"} =>
                fs[other.temp_array_file.name].data = NoData
          /\ other.pc = "cleanup" =>
                fs[other.temp_array_file.name].data = OtherArray

\* C11 witness: on win32, where the handles are closed right after creation,
\* both invocations have written their request and wait for their engine
C11_Witness ==
    /\ platform = "win32"
    /\ pc = "communicate"
    /\ other.pc = "communicate"
    /\ temp_json_file.closed
    /\ other.temp_json_file.closed
    /\ Owns(temp_json_file, pc)
    /\ Owns(other.temp_json_file, other.pc)

====
